---- MODULE Spec2Model ----
(***************************************************************************)
(* Model of the ATS resume analyser backend (src/app.py): the /analyze     *)
(* handler, its payload construction, the Gemini call with exponential     *)
(* backoff and the validation of the reply.                                *)
(*                                                                         *)
(* Python values are modelled as follows.  A str is a TLA+ string.  An     *)
(* optional value (the result of dict.get) is a sequence of length 0       *)
(* (None) or 1.  A dict decoded from JSON is a function from keys to       *)
(* values, a list is a sequence.  A JSON text on the wire is a record of   *)
(* its syntactic form: an object text is the sequence of its members as    *)
(* written (order kept, duplicate keys possible).                          *)
(***************************************************************************)
EXTENDS Integers, Sequences, FiniteSets, TLC

VARIABLES
    request,      \* per request: the multipart submission (form, files)
    pc,           \* per request: position of the handler
    stream_pos,   \* per request: read position of resume_file.stream
    payload,      \* per request: local `payload` of analyze_resume
    attempt,      \* per request: loop variable of call_gemini_api_with_backoff
    wait_time,    \* per request: local `wait_time` of the backoff loop
    api_result,   \* per request: local `api_result` of analyze_resume
    response,     \* per request: the HTTP response returned by the handler
    log,          \* per request: outbound requests and sleeps, in order
    parts,        \* per request: what each call of file_to_base64_part returned
    max_retries_arg  \* the value of the parameter max_retries in the calls

vars == <<request, pc, stream_pos, payload, attempt, wait_time, api_result, response, log,
          parts, max_retries_arg>>

----------------------------------------------------------------------------
(* Bounds of the model *)

\* longest resume, in bytes
\* the largest max_retries passed to call_gemini_api_with_backoff
MaxRetriesArg == 6

MaxResumeLen == 2

----------------------------------------------------------------------------
(* Configuration and constants of the program *)

API_URL == "https://generativelanguage.googleapis.com/v1beta/models/gemini-2.5-flash-preview-09-2025:generateContent?key=API_KEY"

\* the "required" list of RESPONSE_SCHEMA
RESPONSE_SCHEMA_required ==
    <<"match_percentage", "strengths", "improvement_suggestions",
      "matching_skills", "missing_skills">>

RESPONSE_SCHEMA ==
    [type |-> "OBJECT",
     properties |-> [match_percentage |-> "STRING", strengths |-> "STRING",
                     improvement_suggestions |-> "STRING",
                     matching_skills |-> "ARRAY", missing_skills |-> "ARRAY"],
     required |-> RESPONSE_SCHEMA_required]

\* default of the parameter max_retries
max_retries == 5

----------------------------------------------------------------------------
(* Python helpers *)

None == <<>>

Some(v) == <<v>>

\* d.get(key)
Get(d, key) == IF key \in DOMAIN d THEN Some(d[key]) ELSE None

\* `sub in s` for two str
Contains(s, sub) ==
    \E i \in 1..(Len(s) - Len(sub) + 1) : SubSeq(s, i, i + Len(sub) - 1) = sub

Range(q) == {q[i] : i \in 1..Len(q)}

\* a raised exception / a returned value
Raise(type, msg) == [raised |-> TRUE, type |-> type, msg |-> msg, value |-> None]

Return(v) == [raised |-> FALSE, type |-> "", msg |-> "", value |-> v]

\* the classes of requests.exceptions.RequestException that requests.post and
\* raise_for_status raise
RequestExceptionTypes == {"ConnectionError", "Timeout", "HTTPError"}

----------------------------------------------------------------------------
(* Decoded JSON values (what json.loads returns) *)

PyDict(f) == [type |-> "dict", d |-> f, l |-> <<>>, s |-> ""]

PyList(q) == [type |-> "list", d |-> <<>>, l |-> q, s |-> ""]

PyStr(t) == [type |-> "str", d |-> <<>>, l |-> <<>>, s |-> t]

PyInt == [type |-> "int", d |-> <<>>, l |-> <<>>, s |-> ""]

PyNone == [type |-> "NoneType", d |-> <<>>, l |-> <<>>, s |-> ""]

(* JSON texts (what is on the wire) *)

ObjectText(members) == [form |-> "object", members |-> members, items |-> <<>>, s |-> ""]

ArrayText(items) == [form |-> "array", members |-> <<>>, items |-> items, s |-> ""]

StringText(t) == [form |-> "string", members |-> <<>>, items |-> <<>>, s |-> t]

NumberText == [form |-> "number", members |-> <<>>, items |-> <<>>, s |-> ""]

NullText == [form |-> "null", members |-> <<>>, items |-> <<>>, s |-> ""]

\* a text that is no JSON document (truncated, prose, ...)
InvalidText == [form |-> "invalid", members |-> <<>>, items |-> <<>>, s |-> "Here is your report: {"]

\* the dict an object text decodes to: of several members with one key the last wins
MembersToDict(members) ==
    [k \in {members[i][1] : i \in 1..Len(members)} |->
        LET last == CHOOSE i \in 1..Len(members) :
                        /\ members[i][1] = k
                        /\ \A j \in (i + 1)..Len(members) : members[j][1] # k
        IN  members[last][2]]

\* json.loads(text)
json_loads(text) ==
    CASE text.form = "invalid" -> Raise("JSONDecodeError", "Expecting value: line 1 column 1 (char 0)")
      [] text.form = "object"  -> Return(PyDict(MembersToDict(text.members)))
      [] text.form = "array"   -> Return(PyList(text.items))
      [] text.form = "string"  -> Return(PyStr(text.s))
      [] text.form = "number"  -> Return(PyInt)
      [] text.form = "null"    -> Return(PyNone)

\* the keys jsonify can meet, in sorted order (jsonify sorts the keys)
SortedKeys ==
    <<"error", "improvement_suggestions", "match_percentage", "matching_skills",
      "missing_skills", "notes", "strengths">>

RECURSIVE DictToMembers(_, _)
DictToMembers(f, keys) ==
    IF keys = <<>> THEN <<>>
    ELSE LET k == Head(keys)
         IN  (IF k \in DOMAIN f THEN <<<<k, f[k]>>>> ELSE <<>>)
             \o DictToMembers(f, Tail(keys))

\* faulty variant: a dict is cut down to the keys of the schema
jsonify_SchemaOnly(v) ==
    CASE v.type = "dict"     -> ObjectText(DictToMembers(v.d, <<"error">> \o RESPONSE_SCHEMA_required))
      [] v.type = "list"     -> ArrayText(v.l)
      [] v.type = "str"      -> StringText(v.s)
      [] v.type = "int"      -> NumberText
      [] v.type = "NoneType" -> NullText

\* flask.jsonify(value): the body of the response
jsonify(v) ==
    CASE v.type = "dict"     -> ObjectText(DictToMembers(v.d, SortedKeys))
      [] v.type = "list"     -> ArrayText(v.l)
      [] v.type = "str"      -> StringText(v.s)
      [] v.type = "int"      -> NumberText
      [] v.type = "NoneType" -> NullText

\* (jsonify(x), status)
HttpResponse(v, status) == [status |-> status, body |-> jsonify(v)]

ErrorBody(msg) == PyDict([k \in {"error"} |-> msg])

NoResponse == [status |-> 0, body |-> NullText]

----------------------------------------------------------------------------
(* Payload builder *)

b64chars == "ABCDEFGHIJKLMNOPQRSTUVWXYZabcdefghijklmnopqrstuvwxyz0123456789+/"

b64char(i) == SubSeq(b64chars, i + 1, i + 1)

\* base64.b64encode(file_bytes).decode('utf-8')
RECURSIVE b64encode(_)
b64encode(bs) ==
    IF Len(bs) = 0 THEN ""
    ELSE IF Len(bs) = 1 THEN
        LET n == bs[1] * 65536
        IN  b64char(n \div 262144) \o b64char((n \div 4096) % 64) \o "=="
    ELSE IF Len(bs) = 2 THEN
        LET n == bs[1] * 65536 + bs[2] * 256
        IN  b64char(n \div 262144) \o b64char((n \div 4096) % 64)
            \o b64char((n \div 64) % 64) \o "="
    ELSE
        LET n == bs[1] * 65536 + bs[2] * 256 + bs[3]
        IN  b64char(n \div 262144) \o b64char((n \div 4096) % 64)
            \o b64char((n \div 64) % 64) \o b64char(n % 64)
            \o b64encode(SubSeq(bs, 4, Len(bs)))

\* file_stream.read(): the bytes from the read position to the end
stream_read(bytes, pos) == SubSeq(bytes, pos + 1, Len(bytes))

\* file_to_base64_part(file_stream, mime_type); the stream is (bytes, pos)
file_to_base64_part(bytes, pos, mime_type) ==
    [inlineData |-> [mimeType |-> mime_type, data |-> b64encode(stream_read(bytes, pos))]]

system_instruction ==
    "You are an expert ATS (Applicant Tracking System) and Career Coach. "
    \o "Analyze the provided resume (PDF) against the job description (text). "
    \o "Provide an extremely accurate and strict assessment. "
    \o "Return the feedback strictly in the requested JSON format."

user_prompt(jd) ==
    "Analyze the resume against the following Job Description (JD) and provide a structured ATS report. "
    \o "JD: " \o jd

\* the dict `payload` of analyze_resume
BuildPayloadDict(jd, resume_part) ==
    [contents |-> <<[role |-> "user",
                     parts |-> <<[text |-> user_prompt(jd)], resume_part>>]>>,
     generationConfig |-> [responseMimeType |-> "application/json",
                           responseSchema |-> RESPONSE_SCHEMA],
     systemInstruction |-> [parts |-> <<[text |-> system_instruction]>>]]

----------------------------------------------------------------------------
(* The submissions and the replies of the AI service that the model draws from *)

JobDescriptions == {"", "Looking for a Python backend engineer"}

Filenames == {"", "cv.pdf"}

MimeTypes == {"application/pdf", "image/png"}

\* 37 is "%", the first byte of a PDF
ByteValues == {37, 255}

RECURSIVE SeqsUpTo(_, _)
SeqsUpTo(S, n) ==
    IF n = 0 THEN {<<>>}
    ELSE LET shorter == SeqsUpTo(S, n - 1)
         IN  shorter \cup {Append(q, x) : q \in {p \in shorter : Len(p) = n - 1}, x \in S}

\* a werkzeug FileStorage: filename, mimetype and the content of its stream
FileStorages ==
    [filename : Filenames, mimetype : MimeTypes, bytes : SeqsUpTo(ByteValues, MaxResumeLen)]

\* request.form and request.files as dicts
Forms == {<<>>} \cup {[k \in {"job_description"} |-> jd] : jd \in JobDescriptions}

Files == {<<>>} \cup {[k \in {"resume_pdf"} |-> f] : f \in FileStorages}

Requests == [form : Forms, files : Files]

\* the keys a report text of the model can carry: the required ones and an extra one
ReportKeys == Range(RESPONSE_SCHEMA_required) \cup {"notes"}

WireOrder == RESPONSE_SCHEMA_required \o <<"notes">>

ReportValue(k, pct) == IF k = "match_percentage" THEN pct ELSE "value of " \o k

RECURSIVE ReportMembers(_, _, _)
ReportMembers(keys, S, pct) ==
    IF keys = <<>> THEN <<>>
    ELSE (IF Head(keys) \in S THEN <<<<Head(keys), ReportValue(Head(keys), pct)>>>> ELSE <<>>)
         \o ReportMembers(Tail(keys), S, pct)

\* object texts: every subset of the required keys, complete reports with an
\* extra key or another value, and a report that writes one key twice
ObjectTexts ==
    {ObjectText(ReportMembers(WireOrder, S, "75%")) : S \in SUBSET Range(RESPONSE_SCHEMA_required)}
    \cup {ObjectText(ReportMembers(WireOrder, ReportKeys, pct)) : pct \in {"75%", "40%"}}
    \cup {ObjectText(ReportMembers(WireOrder, Range(RESPONSE_SCHEMA_required), "40%")),
          ObjectText(ReportMembers(WireOrder, {"notes", "strengths"}, "75%")),
          ObjectText(<<<<"match_percentage", "40%">>>>
                     \o ReportMembers(WireOrder, Range(RESPONSE_SCHEMA_required), "75%"))}

ArrayTexts ==
    {ArrayText(RESPONSE_SCHEMA_required), ArrayText(<<"match_percentage", "strengths">>),
     ArrayText(<<>>)}

StringTexts ==
    {StringText("match_percentage, strengths, improvement_suggestions, matching_skills, missing_skills"),
     StringText("75%")}

ReplyTexts == ObjectTexts \cup ArrayTexts \cup StringTexts \cup {NumberText, NullText, InvalidText}

\* a reply body with the whole path candidates[0].content.parts[0].text
CandidateBody(text) ==
    [candidates |-> <<[content |-> [parts |-> <<[text |-> text]>>, role |-> "model"],
                       finishReason |-> "STOP"]>>]

\* reply bodies without 'error' that lack a part of that path
PathlessBodies ==
    {[promptFeedback |-> [blockReason |-> "SAFETY"]],
     [candidates |-> <<>>],
     [candidates |-> <<[finishReason |-> "SAFETY"]>>],
     [candidates |-> <<[content |-> [role |-> "model"], finishReason |-> "STOP"]>>],
     [candidates |-> <<[content |-> [parts |-> <<>>, role |-> "model"], finishReason |-> "STOP"]>>],
     [candidates |-> <<[content |-> [parts |-> <<[inlineData |-> "iVBOR"]>>, role |-> "model"],
                        finishReason |-> "STOP"]>>]}

ApiErrorMessages == {"quota exceeded"}

\* reply bodies with an 'error' field, with and without a message
ErrorBodies ==
    {[error |-> [k \in {"code", "message"} |-> IF k = "code" THEN "429" ELSE m]] : m \in ApiErrorMessages}
    \cup {[error |-> [k \in {"code"} |-> "500"]]}

ReplyBodies == {CandidateBody(t) : t \in ReplyTexts} \cup PathlessBodies \cup ErrorBodies

\* what one requests.post + raise_for_status + response.json() can come to
HttpOutcomes ==
    {[kind |-> "raise", type |-> "ConnectionError", msg |-> "Connection refused", body |-> <<>>],
     [kind |-> "raise", type |-> "HTTPError", msg |-> "503 Server Error: Service Unavailable", body |-> <<>>]}
    \cup {[kind |-> "2xx", type |-> "", msg |-> "", body |-> b] : b \in ReplyBodies}


----------------------------------------------------------------------------
(* call_gemini_api_with_backoff: one pass of the loop body *)

\* faulty variant: the body is returned whether or not it has an 'error' field
TryBody_IgnoresError(o) ==
    IF o.kind = "raise" THEN Raise(o.type, o.msg) ELSE Return(o.body)

\* the body of the try block: raise_for_status, response.json(), the 'error' test
TryBody(o) ==
    IF o.kind = "raise" THEN Raise(o.type, o.msg)
    ELSE IF "error" \in DOMAIN o.body THEN
        LET message == Get(o.body.error, "message")
            error_message == IF message = None THEN "Unknown API Error" ELSE message[1]
        IN  Raise("Exception", "Gemini API error: " \o error_message)
    ELSE Return(o.body)

\* `except requests.exceptions.RequestException as e`: the exceptions the clause catches
CaughtByBackoff(exc) == exc.type \in RequestExceptionTypes

\* faulty variant: the last attempt is taken to have a successor
MoreAttemptsRemain_OffByOne(a) == a < max_retries_arg

\* `attempt < max_retries - 1`
MoreAttemptsRemain(a) == a < max_retries_arg - 1

\* faulty variant: `2 * attempt`
BackoffDelay_Linear(a) == 2 * a

\* `wait_time = 2 ** attempt`
BackoffDelay(a) == 2 ^ a

\* the exception raised when the attempts are exhausted
ExhaustedError(e) ==
    Raise("Exception",
          "Gemini API call failed after " \o ToString(max_retries_arg) \o " attempts: " \o e)

----------------------------------------------------------------------------
(* analyze_resume: validation of the submission and of the reply *)

\* faulty variant: `jd is None`, which lets the empty string through
TruthyStr_NoneOnly(opt) == opt # None

\* bool(x) of an optional str
TruthyStr(opt) == opt # None /\ opt[1] # ""

\* bool(x) of an optional FileStorage: a FileStorage is true when it has a filename
TruthyFile(opt) == opt # None /\ opt[1].filename # ""

\* `not jd or not resume_file`
MissingInput(req) ==
    \/ ~TruthyStr(Get(req.form, "job_description"))
    \/ ~TruthyFile(Get(req.files, "resume_pdf"))

\* faulty variant: the file name's extension is tested, not the media type
NotPdf_ByExtension(req) ==
    LET fn == req.files["resume_pdf"].filename
    IN  ~(Len(fn) >= 4 /\ SubSeq(fn, Len(fn) - 3, Len(fn)) = ".pdf")

\* `resume_file.mimetype != 'application/pdf'`
NotPdf(req) == req.files["resume_pdf"].mimetype # "application/pdf"

\* api_result['candidates'][0]['content']['parts'][0]['text']
ExtractText(res) ==
    IF res = None THEN Raise("TypeError", "'NoneType' object is not subscriptable")
    ELSE IF "candidates" \notin DOMAIN res THEN Raise("KeyError", "'candidates'")
    ELSE IF Len(res.candidates) = 0 THEN Raise("IndexError", "list index out of range")
    ELSE IF "content" \notin DOMAIN res.candidates[1] THEN Raise("KeyError", "'content'")
    ELSE IF "parts" \notin DOMAIN res.candidates[1].content THEN Raise("KeyError", "'parts'")
    ELSE IF Len(res.candidates[1].content.parts) = 0 THEN
        Raise("IndexError", "list index out of range")
    ELSE IF "text" \notin DOMAIN res.candidates[1].content.parts[1] THEN
        Raise("KeyError", "'text'")
    ELSE Return(res.candidates[1].content.parts[1].text)

\* `key in report_data`
KeyIn(key, v) ==
    CASE v.type = "dict" -> key \in DOMAIN v.d
      [] v.type = "list" -> key \in Range(v.l)
      [] v.type = "str"  -> Contains(v.s, key)

\* faulty variant: any(...) in place of all(...)
AllRequiredIn_Any(v) ==
    IF v.type \in {"int", "NoneType"} THEN
        Raise("TypeError", "argument of type '" \o v.type \o "' is not iterable")
    ELSE Return(\E i \in 1..Len(RESPONSE_SCHEMA.required) : KeyIn(RESPONSE_SCHEMA.required[i], v))

\* all(key in report_data for key in RESPONSE_SCHEMA['required'])
AllRequiredIn(v) ==
    IF v.type \in {"int", "NoneType"} THEN
        Raise("TypeError", "argument of type '" \o v.type \o "' is not iterable")
    ELSE Return(\A i \in 1..Len(RESPONSE_SCHEMA.required) : KeyIn(RESPONSE_SCHEMA.required[i], v))

\* the body of the inner try block: a response, or the exception it raises
ValidateTry(res) ==
    LET json_text == ExtractText(res) IN
    IF json_text.raised THEN json_text
    ELSE LET report_data == json_loads(json_text.value) IN
         IF report_data.raised THEN report_data
         ELSE LET ok == AllRequiredIn(report_data.value) IN
              IF ok.raised THEN ok
              ELSE IF ok.value THEN Return(HttpResponse(report_data.value, 200))
              ELSE Return(HttpResponse(ErrorBody("AI response was missing required fields."), 500))

\* faulty variant: `except KeyError`
CaughtByValidation_KeyErrorOnly(exc) == exc.type \in {"KeyError"}

\* `except (json.JSONDecodeError, KeyError)`
CaughtByValidation(exc) == exc.type \in {"JSONDecodeError", "KeyError"}

\* faulty variant: `return str(e), 500`, the message as it is and no JSON object
UnexpectedError_Plain(exc) == [status |-> 500, body |-> StringText(exc.msg)]

\* `except Exception as e`: the response of the last-resort handler
UnexpectedError(exc) == HttpResponse(ErrorBody(exc.msg), 500)

\* step 5 of analyze_resume with both handlers applied
ValidateResult(res) ==
    LET r == ValidateTry(res) IN
    IF ~r.raised THEN r.value
    ELSE IF CaughtByValidation(r) THEN HttpResponse(ErrorBody("Failed to parse AI response."), 500)
    ELSE UnexpectedError(r)

----------------------------------------------------------------------------
(* Events of the log *)

\* requests.post(url, data = json.dumps(data)) is called
PostEvent(url, data) == [op |-> "post", url |-> url, data |-> data, secs |-> 0]

\* the service's outcome o of the last post arrives
ReplyEvent(o) == [op |-> "reply", url |-> "", data |-> o, secs |-> 0]

\* time.sleep(secs) is called
SleepEvent(secs) == [op |-> "sleep", url |-> "", data |-> None, secs |-> secs]

\* where the loop `for attempt in range(max_retries)` goes with the next value a:
\* another pass, or off its end (the function then returns None)
LoopPc(a) == IF a < max_retries_arg THEN "call" ELSE "validate"

----------------------------------------------------------------------------
(* The state machine *)

\* the requests ids arrive, each drawn from reqs; the calls are made with
\* max_retries drawn from retries
InitWith(ids, reqs, retries) ==
    /\ request \in [ids -> reqs]
    /\ pc = [r \in ids |-> "recv"]
    /\ stream_pos = [r \in ids |-> 0]
    /\ payload = [r \in ids |-> None]
    /\ attempt = [r \in ids |-> 0]
    /\ wait_time = [r \in ids |-> 0]
    /\ api_result = [r \in ids |-> None]
    /\ response = [r \in ids |-> NoResponse]
    /\ log = [r \in ids |-> <<>>]
    /\ parts = [r \in ids |-> <<>>]
    /\ max_retries_arg \in retries

\* the only call of the program passes no max_retries: the default is used
InitFor(ids) == InitWith(ids, Requests, {max_retries})

Init == InitFor({1})

\* analyze_resume, lines 88-92: a missing field is answered 400
RejectMissing(r) ==
    /\ pc[r] = "recv"
    /\ MissingInput(request[r])
    /\ response' = [response EXCEPT ![r] =
            HttpResponse(ErrorBody("Missing job description or resume file."), 400)]
    /\ pc' = [pc EXCEPT ![r] = "done"]
    /\ UNCHANGED <<request, stream_pos, payload, attempt, wait_time, api_result, log,
                 parts, max_retries_arg>>

\* analyze_resume, lines 94-95: a file that is no PDF is answered 400
RejectNotPdf(r) ==
    /\ pc[r] = "recv"
    /\ ~MissingInput(request[r])
    /\ NotPdf(request[r])
    /\ response' = [response EXCEPT ![r] =
            HttpResponse(ErrorBody("Only PDF files are supported."), 400)]
    /\ pc' = [pc EXCEPT ![r] = "done"]
    /\ UNCHANGED <<request, stream_pos, payload, attempt, wait_time, api_result, log,
                 parts, max_retries_arg>>

\* analyze_resume, lines 97-133: the payload is built and the call entered
BuildPayload(r) ==
    /\ pc[r] = "recv"
    /\ ~MissingInput(request[r])
    /\ ~NotPdf(request[r])
    /\ LET resume_file == request[r].files["resume_pdf"]
           jd == request[r].form["job_description"]
           resume_part == file_to_base64_part(resume_file.bytes, stream_pos[r], "application/pdf")
       IN  /\ payload' = [payload EXCEPT ![r] = BuildPayloadDict(jd, resume_part)]
           /\ stream_pos' = [stream_pos EXCEPT ![r] = Len(resume_file.bytes)]
           /\ parts' = [parts EXCEPT ![r] = Append(@, resume_part)]
    /\ attempt' = [attempt EXCEPT ![r] = 0]
    /\ pc' = [pc EXCEPT ![r] = LoopPc(0)]
    /\ UNCHANGED <<request, wait_time, api_result, response, log, max_retries_arg>>

\* faulty variant: the payload is built again, from the same stream, for each attempt
Post_Rebuilds(r) ==
    /\ pc[r] = "call"
    /\ LET resume_file == request[r].files["resume_pdf"]
           jd == request[r].form["job_description"]
           resume_part == file_to_base64_part(resume_file.bytes, stream_pos[r], "application/pdf")
       IN  /\ payload' = [payload EXCEPT ![r] = BuildPayloadDict(jd, resume_part)]
           /\ parts' = [parts EXCEPT ![r] = Append(@, resume_part)]
           /\ log' = [log EXCEPT ![r] = Append(@, PostEvent(API_URL, BuildPayloadDict(jd, resume_part)))]
    /\ pc' = [pc EXCEPT ![r] = "await"]
    /\ UNCHANGED <<request, stream_pos, attempt, wait_time, api_result, response,
                 max_retries_arg>>

\* call_gemini_api_with_backoff, lines 52-53: requests.post sends the request
Post(r) ==
    /\ pc[r] = "call"
    /\ log' = [log EXCEPT ![r] = Append(@, PostEvent(API_URL, payload[r]))]
    /\ pc' = [pc EXCEPT ![r] = "await"]
    /\ UNCHANGED <<request, stream_pos, payload, attempt, wait_time, api_result, response,
                 parts, max_retries_arg>>

\* call_gemini_api_with_backoff, lines 53-69: the outcome o of the request:
\* the result is returned, or the failure is retried after a sleep, or an
\* exception leaves the function and analyze_resume answers 500 (lines 148-150)
Outcome(r, o) ==
    /\ pc[r] = "await"
    /\ LET t == TryBody(o) IN
       IF ~t.raised THEN
            /\ api_result' = [api_result EXCEPT ![r] = t.value]
            /\ pc' = [pc EXCEPT ![r] = "validate"]
            /\ log' = [log EXCEPT ![r] = Append(@, ReplyEvent(o))]
            /\ UNCHANGED <<wait_time, response>>
       ELSE IF CaughtByBackoff(t) /\ MoreAttemptsRemain(attempt[r]) THEN
            /\ wait_time' = [wait_time EXCEPT ![r] = BackoffDelay(attempt[r])]
            /\ log' = [log EXCEPT ![r] =
                    Append(Append(@, ReplyEvent(o)), SleepEvent(BackoffDelay(attempt[r])))]
            /\ pc' = [pc EXCEPT ![r] = "sleep"]
            /\ UNCHANGED <<api_result, response>>
       ELSE
            /\ response' = [response EXCEPT ![r] =
                    UnexpectedError(IF CaughtByBackoff(t) THEN ExhaustedError(t.msg) ELSE t)]
            /\ pc' = [pc EXCEPT ![r] = "done"]
            /\ log' = [log EXCEPT ![r] = Append(@, ReplyEvent(o))]
            /\ UNCHANGED <<wait_time, api_result>>
    /\ UNCHANGED <<request, stream_pos, payload, attempt, parts, max_retries_arg>>

\* faulty variant: the attempt counter is one module-level variable
Sleep_SharedCounter(r) ==
    /\ pc[r] = "sleep"
    /\ attempt' = [s \in DOMAIN attempt |-> attempt[s] + 1]
    /\ pc' = [pc EXCEPT ![r] = LoopPc(attempt[r] + 1)]
    /\ UNCHANGED <<request, stream_pos, payload, wait_time, api_result, response, log,
                   parts, max_retries_arg>>

\* call_gemini_api_with_backoff, line 67 and 50: time.sleep returns and the
\* loop goes to its next pass
Sleep(r) ==
    /\ pc[r] = "sleep"
    /\ attempt' = [attempt EXCEPT ![r] = @ + 1]
    /\ pc' = [pc EXCEPT ![r] = LoopPc(attempt[r] + 1)]
    /\ UNCHANGED <<request, stream_pos, payload, wait_time, api_result, response, log,
                 parts, max_retries_arg>>

\* faulty variant: a result that fails validation is asked for again
Validate_Retry(r) ==
    /\ pc[r] = "validate"
    /\ IF ValidateResult(api_result[r]).status = 500 /\ MoreAttemptsRemain(attempt[r])
       THEN /\ attempt' = [attempt EXCEPT ![r] = @ + 1]
            /\ pc' = [pc EXCEPT ![r] = "call"]
            /\ UNCHANGED response
       ELSE /\ response' = [response EXCEPT ![r] = ValidateResult(api_result[r])]
            /\ pc' = [pc EXCEPT ![r] = "done"]
            /\ UNCHANGED attempt
    /\ UNCHANGED <<request, stream_pos, payload, wait_time, api_result, log,
                   parts, max_retries_arg>>

\* analyze_resume, lines 135-150: the result is validated and answered
Validate(r) ==
    /\ pc[r] = "validate"
    /\ response' = [response EXCEPT ![r] = ValidateResult(api_result[r])]
    /\ pc' = [pc EXCEPT ![r] = "done"]
    /\ UNCHANGED <<request, stream_pos, payload, attempt, wait_time, api_result, log,
                 parts, max_retries_arg>>

Next ==
    \/ \E r \in DOMAIN pc : RejectMissing(r)
    \/ \E r \in DOMAIN pc : RejectNotPdf(r)
    \/ \E r \in DOMAIN pc : BuildPayload(r)
    \/ \E r \in DOMAIN pc : Post(r)
    \/ \E r \in DOMAIN pc : \E o \in HttpOutcomes : Outcome(r, o)
    \/ \E r \in DOMAIN pc : Sleep(r)
    \/ \E r \in DOMAIN pc : Validate(r)

Spec == Init /\ [][Next]_vars

----------------------------------------------------------------------------
(* Two requests handled at once, each by its own thread of the server *)

\* a complete submission, one without job description, one with an image
ConcRequests ==
    {[form |-> [k \in {"job_description"} |-> "Looking for a Python backend engineer"],
      files |-> [k \in {"resume_pdf"} |->
                    [filename |-> "cv.pdf", mimetype |-> "application/pdf", bytes |-> <<37>>]]],
     [form |-> <<>>,
      files |-> [k \in {"resume_pdf"} |->
                    [filename |-> "cv.pdf", mimetype |-> "application/pdf", bytes |-> <<37>>]]],
     [form |-> [k \in {"job_description"} |-> "Looking for a Python backend engineer"],
      files |-> [k \in {"resume_pdf"} |->
                    [filename |-> "cv.pdf", mimetype |-> "image/png", bytes |-> <<37>>]]]}

\* a failure, an error body, a complete report, a text that is no JSON
ConcOutcomes ==
    {[kind |-> "raise", type |-> "ConnectionError", msg |-> "Connection refused", body |-> <<>>],
     [kind |-> "2xx", type |-> "", msg |-> "",
      body |-> [error |-> [k \in {"code", "message"} |->
                              IF k = "code" THEN "429" ELSE "quota exceeded"]]],
     [kind |-> "2xx", type |-> "", msg |-> "",
      body |-> CandidateBody(ObjectText(ReportMembers(WireOrder, ReportKeys, "75%")))],
     [kind |-> "2xx", type |-> "", msg |-> "", body |-> CandidateBody(InvalidText)]}

InitConc == InitWith({1, 2}, ConcRequests, {max_retries})

\* the next step of the thread that handles request r
Handle(r) ==
    \/ RejectMissing(r)
    \/ RejectNotPdf(r)
    \/ BuildPayload(r)
    \/ Post(r)
    \/ \E o \in ConcOutcomes : Outcome(r, o)
    \/ Sleep(r)
    \/ Validate(r)

NextConc ==
    \/ \E r \in DOMAIN pc : RejectMissing(r)
    \/ \E r \in DOMAIN pc : RejectNotPdf(r)
    \/ \E r \in DOMAIN pc : BuildPayload(r)
    \/ \E r \in DOMAIN pc : Post(r)
    \/ \E r \in DOMAIN pc : \E o \in ConcOutcomes : Outcome(r, o)
    \/ \E r \in DOMAIN pc : Sleep(r)
    \/ \E r \in DOMAIN pc : Validate(r)

\* The payload builder on its own: lines 97-130 applied to the request, and
\* then once more to the same inputs, the resume stream being the object that
\* the first application has read (line 39: file_stream.read())
BuildAgain(r) ==
    /\ pc[r] = "call"
    /\ Len(parts[r]) = 1
    /\ LET resume_file == request[r].files["resume_pdf"]
           jd == request[r].form["job_description"]
           resume_part == file_to_base64_part(resume_file.bytes, stream_pos[r], "application/pdf")
       IN  /\ payload' = [payload EXCEPT ![r] = BuildPayloadDict(jd, resume_part)]
           /\ stream_pos' = [stream_pos EXCEPT ![r] = Len(resume_file.bytes)]
           /\ parts' = [parts EXCEPT ![r] = Append(@, resume_part)]
    /\ UNCHANGED <<request, pc, attempt, wait_time, api_result, response, log,
                 max_retries_arg>>

NextBuilder ==
    \/ \E r \in DOMAIN pc : RejectMissing(r)
    \/ \E r \in DOMAIN pc : RejectNotPdf(r)
    \/ \E r \in DOMAIN pc : BuildPayload(r)
    \/ \E r \in DOMAIN pc : BuildAgain(r)

SpecBuilder == Init /\ [][NextBuilder]_vars

\* call_gemini_api_with_backoff(payload, max_retries) for every max_retries
\* of 0..MaxRetriesArg, the default among them
InitRetries == InitWith({1}, ConcRequests, 0..MaxRetriesArg)

SpecRetries == InitRetries /\ [][Next]_vars

\* every outbound attempt returns or fails in the end, and the handler's
\* thread keeps running
SpecFair == Init /\ [][Next]_vars /\ WF_vars(Next)

\* no fairness is stated: any thread may be held up for ever
SpecConc == InitConc /\ [][NextConc]_vars

----------------------------------------------------------------------------
(* Observations on the log and the state, used by the properties *)

RECURSIVE CountPosts(_)
CountPosts(q) ==
    IF q = <<>> THEN 0 ELSE (IF Head(q).op = "post" THEN 1 ELSE 0) + CountPosts(Tail(q))

RECURSIVE SleepsOf(_)
SleepsOf(q) ==
    IF q = <<>> THEN <<>>
    ELSE (IF Head(q).op = "sleep" THEN <<Head(q).secs>> ELSE <<>>) \o SleepsOf(Tail(q))

Reqs == DOMAIN pc

Done(r) == pc[r] = "done"

TypeOK ==
    /\ pc \in [Reqs -> {"recv", "call", "await", "sleep", "validate", "done"}]
    /\ \A r \in Reqs : /\ request[r] \in Requests
                       /\ attempt[r] \in 0..max_retries_arg
                       /\ response[r].status \in {0, 200, 400, 500}
                       /\ (response[r].status # 0) = Done(r)


----------------------------------------------------------------------------
(* Vocabulary of the properties *)

\* the outcomes the service gave to the posts of a log, in order
RECURSIVE RepliesOf(_)
RepliesOf(q) ==
    IF q = <<>> THEN <<>>
    ELSE (IF Head(q).op = "reply" THEN <<Head(q).data>> ELSE <<>>) \o RepliesOf(Tail(q))

\* a transport-level failure: connection error, timeout, non-2xx status
IsTransportFailure(o) == o.kind = "raise"

\* a 2xx response whose parsed body has an `error` field
IsApiError(o) == o.kind = "2xx" /\ "error" \in DOMAIN o.body

\* a 2xx response whose parsed body has no `error` field
IsSuccess(o) == o.kind = "2xx" /\ "error" \notin DOMAIN o.body

\* the JSON text {"error": msg}
ErrorJson(msg) == ObjectText(<<<<"error", msg>>>>)

ErrorResponse(status, msg) == [status |-> status, body |-> ErrorJson(msg)]

\* the keys written in an object text
KeysOfText(text) == {text.members[i][1] : i \in 1..Len(text.members)}

RequiredKeys == Range(RESPONSE_SCHEMA_required)

JdAbsentOrEmpty(req) ==
    \/ "job_description" \notin DOMAIN req.form
    \/ req.form["job_description"] = ""

\* no file part, or the part of a file input left empty (no filename)
ResumeAbsentOrEmpty(req) ==
    \/ "resume_pdf" \notin DOMAIN req.files
    \/ req.files["resume_pdf"].filename = ""

\* the result has no candidates[0].content.parts[0].text
LacksTextPath(res) ==
    \/ "candidates" \notin DOMAIN res
    \/ res.candidates = <<>>
    \/ "content" \notin DOMAIN res.candidates[1]
    \/ "parts" \notin DOMAIN res.candidates[1].content
    \/ res.candidates[1].content.parts = <<>>
    \/ "text" \notin DOMAIN res.candidates[1].content.parts[1]

\* the call returned a result to the handler, which has answered
Answered(r) == Done(r) /\ api_result[r] # None

HasText(r) == Answered(r) /\ ~LacksTextPath(api_result[r])

TextOf(r) == api_result[r].candidates[1].content.parts[1].text

----------------------------------------------------------------------------
(* C1: N transient failures (0 <= N < 5) followed by a success: exactly N+1 *)
(* requests are sent, exactly N sleeps of 1, 2, ..., 2^(N-1) seconds occur,  *)
(* each between the failed attempt and the next request, and the call       *)
(* returns the parsed body of the successful response.                      *)
C1_BackoffThenSuccess ==
    \A r \in Reqs : \A N \in 0..4 :
        LET rs == RepliesOf(log[r])
            q == log[r]
        IN  (/\ Len(rs) = N + 1
             /\ \A i \in 1..N : IsTransportFailure(rs[i])
             /\ IsSuccess(rs[N + 1]))
            => /\ CountPosts(q) = N + 1
               /\ SleepsOf(q) = [i \in 1..N |-> 2 ^ (i - 1)]
               /\ Len(q) = 3 * N + 2
               /\ \A i \in 1..N : /\ q[3 * i - 2].op = "post"
                                  /\ q[3 * i - 1].op = "reply"
                                  /\ q[3 * i].op = "sleep"
               /\ q[3 * N + 1].op = "post"
               /\ q[3 * N + 2].op = "reply"
               /\ pc[r] \in {"validate", "done"}
               /\ api_result[r] = rs[N + 1].body

\* four failures, then a success after sleeps of 1, 2, 4 and 8 seconds
C1_Witness ==
    \E r \in Reqs :
        LET rs == RepliesOf(log[r])
        IN  /\ Len(rs) = 5
            /\ \A i \in 1..4 : IsTransportFailure(rs[i])
            /\ IsSuccess(rs[5])
            /\ SleepsOf(log[r]) = <<1, 2, 4, 8>>
            /\ pc[r] = "validate"

(* C2: a 2xx response whose body has an `error` field is retried like a     *)
(* transport failure: while attempts remain the caller sleeps 2^attempt     *)
(* seconds and goes on, and when every attempt is answered                  *)
(* {error:{message:m}} exactly 5 requests are sent before /analyze answers  *)
(* 500 with a message containing m.                                         *)
C2_ErrorFieldIsRetried ==
    \A r \in Reqs :
        LET rs == RepliesOf(log[r])
            n == Len(rs)
        IN  (n > 0 /\ \A i \in 1..n : IsApiError(rs[i]))
            => IF n < 5
               THEN /\ pc[r] \in {"sleep", "call", "await"}
                    /\ SleepsOf(log[r]) = [i \in 1..n |-> 2 ^ (i - 1)]
               ELSE /\ Done(r)
                    /\ CountPosts(log[r]) = 5
                    /\ response[r].status = 500
                    /\ response[r].body.form = "object"
                    /\ \E i \in 1..Len(response[r].body.members) :
                          /\ response[r].body.members[i][1] = "error"
                          /\ \A m \in ApiErrorMessages :
                                Get(rs[5].body.error, "message") = Some(m)
                                => Contains(response[r].body.members[i][2], m)

(* C3: five transport failures in a row: exactly 5 requests, exactly the    *)
(* 4 sleeps 1, 2, 4, 8 and none after the last failure, then /analyze       *)
(* answers 500 with an error message carrying the last failure's message.   *)
C3_ExhaustedAfterFive ==
    \A r \in Reqs :
        LET rs == RepliesOf(log[r])
            q == log[r]
        IN  (Len(rs) = 5 /\ \A i \in 1..5 : IsTransportFailure(rs[i]))
            => /\ Done(r)
               /\ CountPosts(q) = 5
               /\ SleepsOf(q) = <<1, 2, 4, 8>>
               /\ q[Len(q)].op = "reply"
               /\ response[r].status = 500
               /\ response[r].body.form = "object"
               /\ Len(response[r].body.members) = 1
               /\ response[r].body.members[1][1] = "error"
               /\ Contains(response[r].body.members[1][2], rs[5].msg)

\* five failures, the last with another message than the one before it
C3_Witness ==
    \E r \in Reqs :
        LET rs == RepliesOf(log[r])
        IN  /\ Len(rs) = 5
            /\ \A i \in 1..5 : IsTransportFailure(rs[i])
            /\ rs[4].msg # rs[5].msg
            /\ response[r].status = 500

C5_NotPdfIs400_AnyFields ==
    \A r \in Reqs :
        (/\ "resume_pdf" \in DOMAIN request[r].files
         /\ request[r].files["resume_pdf"].mimetype # "application/pdf")
        => /\ log[r] = <<>>
           /\ Done(r) => response[r] = ErrorResponse(400, "Only PDF files are supported.")

(* C5 amended: when job_description is non-empty and resume_pdf is present  *)
(* with a filename, a declared media type other than the PDF media type is  *)
(* answered 400 {"error": "Only PDF files are supported."}; no request is   *)
(* sent to the AI service.                                                  *)
C5_NotPdfIs400 ==
    \A r \in Reqs :
        (/\ ~JdAbsentOrEmpty(request[r])
         /\ ~ResumeAbsentOrEmpty(request[r])
         /\ request[r].files["resume_pdf"].mimetype # "application/pdf")
        => /\ pc[r] \in {"recv", "done"}
           /\ log[r] = <<>>
           /\ Done(r) => response[r] = ErrorResponse(400, "Only PDF files are supported.")

\* a named image/png file sent with a job description has been answered 400
C5_Witness ==
    \E r \in Reqs :
        /\ Done(r)
        /\ ~JdAbsentOrEmpty(request[r])
        /\ ~ResumeAbsentOrEmpty(request[r])
        /\ request[r].files["resume_pdf"].mimetype = "image/png"
        /\ response[r].status = 400

(* C6: every 200 response of /analyze has as body a JSON object with all    *)
(* five required keys; no decoded reply that is not such an object is       *)
(* relayed with status 200.                                                 *)
C6_Every200IsAReport ==
    \A r \in Reqs :
        response[r].status = 200
        => /\ response[r].body.form = "object"
           /\ RequiredKeys \subseteq KeysOfText(response[r].body)

(* C7: every raw result that lacks the path to a text payload (candidates   *)
(* absent or empty, content missing, parts absent or empty, text missing)   *)
(* is answered 500 {"error": "Failed to parse AI response."}.               *)
C7_PathlessIsParseFailure ==
    \A r \in Reqs :
        (Answered(r) /\ LacksTextPath(api_result[r]))
        => response[r] = ErrorResponse(500, "Failed to parse AI response.")

(* C8: a result whose text decodes to a JSON object missing one or more of  *)
(* the five required keys (any non-empty set of missing keys) is answered   *)
(* 500 {"error": "AI response was missing required fields."}.               *)
C8_MissingKeysIs500 ==
    \A r \in Reqs :
        (/\ HasText(r)
         /\ TextOf(r).form = "object"
         /\ RequiredKeys \ KeysOfText(TextOf(r)) # {})
        => response[r] = ErrorResponse(500, "AI response was missing required fields.")

\* a report without missing_skills and nothing else missing has been answered 500
C8_Witness ==
    \E r \in Reqs :
        /\ HasText(r)
        /\ TextOf(r).form = "object"
        /\ RequiredKeys \ KeysOfText(TextOf(r)) = {"missing_skills"}
        /\ response[r].status = 500

(* C9: a result whose text field is not parseable as JSON is answered       *)
(* 500 {"error": "Failed to parse AI response."}.                           *)
C9_InvalidJsonIsParseFailure ==
    \A r \in Reqs :
        (HasText(r) /\ TextOf(r).form = "invalid")
        => response[r] = ErrorResponse(500, "Failed to parse AI response.")

\* a reply whose text is no JSON document has been answered 500
C9_Witness ==
    \E r \in Reqs :
        /\ HasText(r)
        /\ TextOf(r).form = "invalid"
        /\ response[r].status = 500

(* C10: when the call returns a result whose text decodes to a JSON object  *)
(* with all five required keys, the answer is 200 and its body is that      *)
(* object: every key of it with its value, extra keys included, no other.   *)
C10_ReportEchoed ==
    \A r \in Reqs :
        (/\ HasText(r)
         /\ TextOf(r).form = "object"
         /\ RequiredKeys \subseteq KeysOfText(TextOf(r)))
        => /\ ~JdAbsentOrEmpty(request[r])
           /\ request[r].files["resume_pdf"].mimetype = "application/pdf"
           /\ response[r].status = 200
           /\ response[r].body.form = "object"
           /\ json_loads(response[r].body).value = json_loads(TextOf(r)).value

\* a complete report with an extra key, written in another order than the
\* body's, has been answered 200
C10_Witness ==
    \E r \in Reqs :
        /\ HasText(r)
        /\ TextOf(r).form = "object"
        /\ KeysOfText(TextOf(r)) = RequiredKeys \cup {"notes"}
        /\ response[r].status = 200
        /\ response[r].body # TextOf(r)


(* C11: validation failures are never retried: once the call has returned a *)
(* result nothing more is sent for that request, whether the validation of  *)
(* the result succeeds or fails; a request answered 400 has sent nothing.   *)
C11_NoRetryAfterReturn ==
    \A r \in Reqs :
        /\ \A i \in 1..Len(log[r]) :
              (log[r][i].op = "reply" /\ IsSuccess(log[r][i].data))
              => /\ i = Len(log[r])
                 /\ pc[r] \in {"validate", "done"}
        /\ response[r].status = 400 => CountPosts(log[r]) = 0

\* a result that failed validation has been answered 500 after a single request
C11_Witness ==
    \E r \in Reqs :
        /\ Answered(r)
        /\ response[r].status = 500
        /\ CountPosts(log[r]) = 1
        /\ IsSuccess(log[r][Len(log[r])].data)

\* everything the handler of request r reads or writes
StateOf(r) ==
    <<request[r], pc[r], stream_pos[r], payload[r], attempt[r], wait_time[r],
      api_result[r], response[r], log[r], parts[r]>>

\* while a request sleeps every other unanswered request has a step to take
OthersNotBlocked ==
    \A r \in Reqs : \A s \in Reqs \ {r} :
        (pc[r] = "sleep" /\ ~Done(s)) => ENABLED Handle(s)

\* two requests with the same submission and the same replies of the service
\* have sent the same, slept the same and been answered the same, however
\* their steps were interleaved
SameUnderInterleaving ==
    \A r \in Reqs : \A s \in Reqs :
        (/\ Done(r) /\ Done(s)
         /\ request[r] = request[s]
         /\ RepliesOf(log[r]) = RepliesOf(log[s]))
        => /\ log[r] = log[s]
           /\ response[r] = response[s]

\* a step changes the state of one request only
OneRequestPerStep ==
    \A r \in Reqs : \A s \in Reqs \ {r} :
        (StateOf(r)' # StateOf(r)) => (StateOf(s)' = StateOf(s))

(* C12: with two requests handled at once, while one sleeps in its backoff  *)
(* the other can take its next step, and a request whose own thread keeps   *)
(* running reaches its response even if the other never wakes; the requests *)
(* share no mutable state, so each is answered the same under every         *)
(* interleaving.                                                            *)
C12_RequestsAreIndependent ==
    /\ [](OthersNotBlocked /\ SameUnderInterleaving)
    /\ [][OneRequestPerStep]_vars
    /\ \A s \in {1, 2} : WF_vars(Handle(s)) => <>Done(s)

\* request 2 has failed once, slept, retried and been answered 200 while
\* request 1 is still in its first sleep
C12_Witness ==
    /\ Reqs = {1, 2}
    /\ pc[1] = "sleep"
    /\ SleepsOf(log[1]) = <<1>>
    /\ Done(2)
    /\ response[2].status = 200
    /\ CountPosts(log[2]) = 2

AllDone == \A r \in Reqs : Done(r)

\* at most 5 attempts and 4 sleeps; no response before the end, and then one
\* of status 200, 400 or 500; a response that is not 200 is {"error": <message>}
BoundedAndWellFormed ==
    \A r \in Reqs :
        /\ CountPosts(log[r]) <= 5
        /\ Len(SleepsOf(log[r])) <= 4
        /\ ~Done(r) => response[r] = NoResponse
        /\ Done(r) => response[r].status \in {200, 400, 500}
        /\ (Done(r) /\ response[r].status # 200)
           => /\ response[r].body.form = "object"
              /\ KeysOfText(response[r].body) = {"error"}
              /\ Len(response[r].body.members) = 1

\* the response given is not replaced
ResponseIsFinal == \A r \in Reqs : Done(r) => (Done(r)' /\ response'[r] = response[r])

(* C13: if every outbound attempt returns or fails in the end, every        *)
(* request terminates, after at most 5 attempts and 4 sleeps, with exactly  *)
(* one response, of status 200, 400 or 500; a response that is not 200 is   *)
(* the single JSON body {"error": <message>}, with no part of a report.     *)
C13_TerminatesWithOneResponse ==
    /\ <>AllDone
    /\ []BoundedAndWellFormed
    /\ [][ResponseIsFinal]_vars

\* a request has ended with 500 after 5 attempts and 4 sleeps
C13_Witness ==
    \E r \in Reqs :
        /\ Done(r)
        /\ CountPosts(log[r]) = 5
        /\ Len(SleepsOf(log[r])) = 4
        /\ response[r].status = 500

(* C14: the payload builder is pure: file_to_base64_part applied twice to   *)
(* the same file stream yields the same inlineData part (so the payload     *)
(* built twice from the same inputs is the same payload).                   *)
C14_BuilderIsPure ==
    \A r \in Reqs : Len(parts[r]) = 2 => parts[r][1] = parts[r][2]

\* the last outcome of r's outbound attempts
LastReply(r) == log[r][Len(log[r])].data

(* C15: for every max_retries >= 1 the call ends by returning a parsed body *)
(* with no `error` field or by raising: the result the handler validates is *)
(* never absent, and a call that is over without a result has raised, which *)
(* the handler answers 500. For max_retries = 0 no attempt is made.         *)
C15_CallReturnsOrRaises ==
    \A r \in Reqs :
        /\ (max_retries_arg >= 1 /\ pc[r] = "validate")
           => /\ api_result[r] # None
              /\ "error" \notin DOMAIN api_result[r]
              /\ api_result[r] = LastReply(r).body
        /\ (max_retries_arg >= 1 /\ Done(r) /\ CountPosts(log[r]) >= 1 /\ api_result[r] = None)
           => /\ TryBody(LastReply(r)).raised
              /\ response[r].status = 500
        /\ max_retries_arg = 0 => CountPosts(log[r]) = 0

\* with max_retries = 1 the single attempt has failed and the call has raised
C15_Witness ==
    \E r \in Reqs :
        /\ max_retries_arg = 1
        /\ Done(r)
        /\ CountPosts(log[r]) = 1
        /\ IsTransportFailure(LastReply(r))
        /\ api_result[r] = None
        /\ response[r].status = 500

\* the payload of lines 97-130 for r's request, its stream read from the start
PayloadOf(r) ==
    BuildPayloadDict(request[r].form["job_description"],
                     file_to_base64_part(request[r].files["resume_pdf"].bytes, 0,
                                         "application/pdf"))

\* nothing is sent before the payload is built; the builder has run at most
\* once and has read the whole stream; every attempt has sent that payload
BuiltOnceSentUnchanged ==
    \A r \in Reqs :
        /\ Len(parts[r]) <= 1
        /\ Len(parts[r]) = 0 => /\ payload[r] = None
                                /\ stream_pos[r] = 0
                                /\ CountPosts(log[r]) = 0
        /\ Len(parts[r]) = 1 => /\ payload[r] = PayloadOf(r)
                                /\ stream_pos[r] = Len(request[r].files["resume_pdf"].bytes)
        /\ \A i \in 1..Len(log[r]) :
              log[r][i].op = "post" => log[r][i].data = payload[r]

\* once built, the payload, the stream and the request are left as they are
PayloadIsFrozen ==
    \A r \in Reqs :
        payload[r] # None => /\ payload'[r] = payload[r]
                             /\ stream_pos'[r] = stream_pos[r]
                             /\ parts'[r] = parts[r]
                             /\ request'[r] = request[r]

(* C16: within one request the payload is built exactly once, before the    *)
(* first outbound attempt, and the resume stream is read exactly once;      *)
(* every retry sends that same payload, and no failed attempt and no sleep  *)
(* changes it.                                                              *)
C16_PayloadBuiltOnce ==
    /\ []BuiltOnceSentUnchanged
    /\ [][PayloadIsFrozen]_vars

\* a resume of one byte or more has been sent three times, after two sleeps
C16_Witness ==
    \E r \in Reqs :
        /\ CountPosts(log[r]) = 3
        /\ Len(SleepsOf(log[r])) = 2
        /\ Len(request[r].files["resume_pdf"].bytes) >= 1
        /\ Len(parts[r]) = 1
        /\ \A i \in 1..Len(log[r]) : log[r][i].op = "post" => log[r][i].data = PayloadOf(r)

====
